---- MODULE Spec2Model ----
(***************************************************************************)
(* Model of src/audit.c (C-Sentinel auditd log summarisation): the event   *)
(* context cache, the domain parsers, anomaly detection, risk scoring, the *)
(* baseline store and the probe orchestrator.                              *)
(*                                                                         *)
(* Conventions.                                                            *)
(*  - C strings the code inspects character by character (paths, account  *)
(*    names) are sequences of one-character strings.                       *)
(*  - C floats are exact rationals [n, d] in lowest terms with d > 0; the  *)
(*    rounding of binary floating point is not modelled.                   *)
(*  - A popen() stream is read one line per step; the line is an input     *)
(*    chosen from a small set, the end of the stream is a separate step.   *)
(***************************************************************************)
EXTENDS Integers, Sequences, FiniteSets, TLC

VARIABLES
    pc,          \* position of the running operation
    summary,     \* audit_summary_t being filled by the probe
    event_ctx,   \* event_ctx[0 .. event_ctx_count-1]; event_ctx_count = Len
    baseline,    \* an in-memory audit_baseline_t (probe local or the caller's)
    disk,        \* the two baseline files: disk.sys and disk.usr
    home,        \* TRUE iff getenv("HOME") is non-NULL
    log_ok,      \* TRUE iff /var/log/audit/audit.log is readable
    now,         \* value returned by time(NULL)
    ret,         \* return value of the last load/save call ("none" before)
    hist         \* lines consumed and arguments of the last calls (history)

vars == <<pc, summary, event_ctx, baseline, disk, home, log_ok, now, ret, hist>>

(***************************************************************************)
(* Bounds of the model.                                                    *)
(***************************************************************************)
\* capacities declared in include/audit.h (not part of the source at hand);
\* the model uses small values and every property is stated relative to them
MAX_AUDIT_USERS == 2
MAX_AUDIT_FILES == 2
MAX_AUDIT_ANOMALIES == 3
AUDIT_PATH_LEN == 12
\* lines read from one stream in one probe
MaxAuthLines == 6
MaxFileLines == 3
\* lines read from all streams together in one run of the whole probe
MaxProbeLines == 2
\* baseline operations in one run of the baseline store
MaxOps == 4
\* largest value of time(NULL)
MaxNow == 1

(***************************************************************************)
(* Program constants.                                                      *)
(***************************************************************************)
MAX_AUDIT_EVENTS == 256
AUDIT_BASELINE_VERSION == 1
USERNAME_BUF == 64          \* char username[64]

AUDIT_BASELINE_MAGIC == "SNTLAUDT"

(***************************************************************************)
(* Rationals standing for C floats.                                        *)
(***************************************************************************)
RECURSIVE Gcd(_, _)
Gcd(a, b) == IF b = 0 THEN a ELSE Gcd(b, a % b)

Abs(x) == IF x < 0 THEN -x ELSE x

Rat(n, d) ==
    LET g == Gcd(Abs(n), Abs(d))
        s == IF d < 0 THEN -1 ELSE 1
    IN  [n |-> s * (n \div g), d |-> s * (d \div g)]

F(i) == [n |-> i, d |-> 1]                       \* (float)i
RAdd(a, b) == Rat(a.n * b.d + b.n * a.d, a.d * b.d)
RSub(a, b) == Rat(a.n * b.d - b.n * a.d, a.d * b.d)
RMul(a, b) == Rat(a.n * b.n, a.d * b.d)
RDiv(a, b) == Rat(a.n * b.d, a.d * b.n)
RLt(a, b) == a.n * b.d < b.n * a.d
RGt(a, b) == RLt(b, a)

EMA_ALPHA == Rat(2, 10)

(***************************************************************************)
(* Generic helpers.                                                        *)
(***************************************************************************)
Take(s, k) == IF Len(s) <= k THEN s ELSE SubSeq(s, 1, k)

\* strstr(hay, needle) != NULL
Contains(hay, needle) ==
    \E i \in 1..(Len(hay) - Len(needle) + 1) :
        SubSeq(hay, i, i + Len(needle) - 1) = needle

RECURSIVE SumSeq(_)
SumSeq(s) == IF s = <<>> THEN 0 ELSE Head(s) + SumSeq(Tail(s))

(***************************************************************************)
(* The summary after calloc().                                             *)
(***************************************************************************)
ZeroSummary ==
    [ enabled               |-> FALSE,
      auth_failures         |-> 0,
      auth_successes        |-> 0,
      failure_users         |-> <<>>,
      brute_force_detected  |-> FALSE,
      sudo_count            |-> 0,
      su_count              |-> 0,
      sensitive_files       |-> <<>>,
      permission_changes    |-> 0,
      ownership_changes     |-> 0,
      tmp_executions        |-> 0,
      devshm_executions     |-> 0,
      shell_spawns          |-> 0,
      suspicious_exec_count |-> 0,
      selinux_enforcing     |-> FALSE,
      selinux_avc_denials   |-> 0,
      apparmor_denials      |-> 0,
      auth_baseline_avg     |-> F(0),
      auth_deviation_pct    |-> F(0),
      sudo_baseline_avg     |-> F(0),
      sudo_deviation_pct    |-> F(0),
      anomalies             |-> <<>>,
      risk_score            |-> 0,
      risk_level            |-> "" ]

ZeroBaseline ==
    [ magic                |-> "",
      version              |-> 0,
      created              |-> 0,
      updated              |-> 0,
      sample_count         |-> 0,
      avg_auth_failures    |-> F(0),
      avg_sudo_count       |-> F(0),
      avg_sensitive_access |-> F(0),
      avg_tmp_executions   |-> F(0),
      avg_shell_spawns     |-> F(0) ]

(***************************************************************************)
(* Risk scoring: calculate_risk_score.                                     *)
(***************************************************************************)
\* the loop over sensitive_files[0 .. sensitive_file_count-1]
RECURSIVE FileLoopScore(_, _)
FileLoopScore(score, files) ==
    IF files = <<>> THEN score
    ELSE FileLoopScore(score + 2 + (IF Head(files).suspicious THEN 5 ELSE 0),
                       Tail(files))

RiskLevelOf(score) ==
    IF score >= 31 THEN "critical"
    ELSE IF score >= 16 THEN "high"
    ELSE IF score >= 6 THEN "medium"
    ELSE "low"

\* a scorer that applies the deviation multiplier before the brute-force bonus
RiskScoreOfBonusAfter(s) ==
    LET a0 == s.auth_failures
        a1 == IF RGt(s.auth_deviation_pct, F(500)) THEN a0 * 5
              ELSE IF RGt(s.auth_deviation_pct, F(200)) THEN a0 * 3
              ELSE IF RGt(s.auth_deviation_pct, F(100)) THEN a0 * 2
              ELSE a0
        a2 == a1 + (IF s.brute_force_detected THEN 10 ELSE 0)
        a3 == a2 + (IF RGt(s.sudo_deviation_pct, F(200)) THEN 5 ELSE 0)
        a4 == a3 + s.su_count * 2 + s.permission_changes * 3 + s.ownership_changes * 3
        a5 == FileLoopScore(a4, s.sensitive_files)
    IN  a5 + s.tmp_executions * 4 + s.devshm_executions * 6
           + s.suspicious_exec_count * 10
           + s.selinux_avc_denials + s.apparmor_denials

RiskScoreOf(s) ==
    LET a0 == 0 + s.auth_failures * 1
        a1 == a0 + (IF s.brute_force_detected THEN 10 ELSE 0)
        a2 == IF RGt(s.auth_deviation_pct, F(500)) THEN a1 * 5
              ELSE IF RGt(s.auth_deviation_pct, F(200)) THEN a1 * 3
              ELSE IF RGt(s.auth_deviation_pct, F(100)) THEN a1 * 2
              ELSE a1
        a3 == a2 + (IF RGt(s.sudo_deviation_pct, F(200)) THEN 5 ELSE 0)
        a4 == a3 + s.su_count * 2
        a5 == a4 + s.permission_changes * 3
        a6 == a5 + s.ownership_changes * 3
        a7 == FileLoopScore(a6, s.sensitive_files)
        a8 == a7 + s.tmp_executions * 4
        a9 == a8 + s.devshm_executions * 6
        a10 == a9 + s.suspicious_exec_count * 10
        a11 == a10 + s.selinux_avc_denials * 1
    IN  a11 + s.apparmor_denials * 1

calculate_risk_score(s) ==
    LET score == RiskScoreOf(s)
    IN  [s EXCEPT !.risk_score = score, !.risk_level = RiskLevelOf(score)]

(***************************************************************************)
(* Event context cache.                                                    *)
(***************************************************************************)
NoMsg == -1000          \* the line has no "msg=audit(" or no ':' after it
NoField == "<absent>"   \* the line has no such quoted field (comm, exe)
NoInt == -1000          \* the line has no such numeric field (pid, ppid)
NoName == <<"<absent>">> \* the line has no name="
NULL == 0               \* a slot is named by its 1-based index; 0 is NULL

\* extract_event_id: -1 without the marker, else atoi of what follows ':'
extract_event_id(line) == IF line.msg = NoMsg THEN -1 ELSE line.msg

\* memset(ctx, 0, ...); ctx->event_id = event_id; ctx->used = true
NewSlot(event_id) ==
    [event_id |-> event_id, pid |-> 0, ppid |-> 0, comm |-> "", exe |-> "",
     used |-> TRUE]

\* index of the first used slot with this event id, NULL if none
FindSlot(cache, event_id) ==
    LET hits == {i \in 1..Len(cache) :
                    cache[i].used /\ cache[i].event_id = event_id}
    IN  IF hits = {} THEN NULL ELSE CHOOSE i \in hits : \A j \in hits : i <= j

\* get_event_ctx: the slot found or created (NULL when full) and the cache
get_event_ctx(cache, event_id) ==
    IF FindSlot(cache, event_id) # NULL
    THEN [slot |-> FindSlot(cache, event_id), cache |-> cache]
    ELSE IF Len(cache) >= MAX_AUDIT_EVENTS
    THEN [slot |-> NULL, cache |-> cache]
    ELSE [slot |-> Len(cache) + 1, cache |-> Append(cache, NewSlot(event_id))]

\* clear_event_ctx: all slots zeroed, event_ctx_count = 0
clear_event_ctx == <<>>

\* one iteration of the loop of parse_syscall_context
SyscallStep(cache, line) ==
    LET event_id == extract_event_id(line)
        r == get_event_ctx(cache, event_id)
        c0 == r.cache[r.slot]
        c1 == IF line.pid = NoInt THEN c0 ELSE [c0 EXCEPT !.pid = line.pid]
        c2 == IF line.ppid = NoInt THEN c1 ELSE [c1 EXCEPT !.ppid = line.ppid]
        c3 == IF line.comm = NoField THEN c2 ELSE [c2 EXCEPT !.comm = line.comm]
        c4 == IF line.exe = NoField THEN c3 ELSE [c3 EXCEPT !.exe = line.exe]
    IN  IF event_id < 0 THEN cache
        ELSE IF r.slot = NULL THEN cache
        ELSE [r.cache EXCEPT ![r.slot] = c4]

(***************************************************************************)
(* File parser: parse_file_events.                                         *)
(***************************************************************************)
S_shadow == <<"s","h","a","d","o","w">>
S_sudoers == <<"s","u","d","o","e","r","s">>

\* index of the first entry with this path, 0 if none
FindFile(files, path) ==
    LET hits == {j \in 1..Len(files) : files[j].path = path}
    IN  IF hits = {} THEN 0 ELSE CHOOSE j \in hits : \A k \in hits : j <= k

\* the filter on the extracted path
PathPasses(path) == Len(path) > 5 /\ path[Len(path)] # "/"

\* the record appended for a new path; ext is what the external
\* build_process_chain appended, susp what is_suspicious_chain returned
NewFileAccess(path, cache, slot, ext, susp) ==
    LET hasproc == slot # NULL /\ cache[slot].comm # ""
        comm == IF hasproc THEN cache[slot].comm ELSE ""
        names == IF ~hasproc THEN <<>>
                 ELSE IF cache[slot].ppid > 1 THEN <<comm>> \o ext
                 ELSE <<comm>>
    IN  [ path        |-> path,
          access_type |-> "write",
          count       |-> 1,
          process     |-> comm,
          chain       |-> names,
          suspicious  |-> (hasproc /\ susp)
                           \/ Contains(path, S_shadow)
                           \/ Contains(path, S_sudoers) ]

\* a parser that appends without looking for the path
FileStepNoDedup(s, cache, line, ext, susp) ==
    LET path == Take(line.name, AUDIT_PATH_LEN - 1)
    IN  IF line.name = NoName \/ ~PathPasses(path)
           \/ Len(s.sensitive_files) >= MAX_AUDIT_FILES
        THEN [s |-> s, cache |-> cache]
        ELSE [s |-> [s EXCEPT !.sensitive_files =
                          Append(@, NewFileAccess(path, cache, NULL, ext, susp))],
              cache |-> cache]

\* one iteration of the loop of parse_file_events
FileStep(s, cache, line, ext, susp) ==
    LET event_id == extract_event_id(line)
        r == IF event_id >= 0 THEN get_event_ctx(cache, event_id)
             ELSE [slot |-> NULL, cache |-> cache]
        path == Take(line.name, AUDIT_PATH_LEN - 1)
        j == FindFile(s.sensitive_files, path)
        hasproc == r.slot # NULL /\ r.cache[r.slot].comm # ""
    IN  IF line.name = NoName THEN [s |-> s, cache |-> r.cache]
        ELSE IF ~(PathPasses(path)
                  /\ Len(s.sensitive_files) < MAX_AUDIT_FILES)
        THEN [s |-> s, cache |-> r.cache]
        ELSE IF j # 0
        THEN [s |-> [s EXCEPT !.sensitive_files[j].count = @ + 1],
              cache |-> r.cache]
        ELSE [s |-> [s EXCEPT
                       !.sensitive_files =
                           Append(@, NewFileAccess(path, r.cache, r.slot, ext, susp)),
                       !.suspicious_exec_count =
                           IF hasproc /\ susp THEN @ + 1 ELSE @],
              cache |-> r.cache]

(***************************************************************************)
(* History (not program state): what the streams delivered so far.         *)
(***************************************************************************)
N_shadow == <<"/","e","t","c","/","s","h","a","d","o","w">>
N_passwd == <<"/","e","t","c","/","p","a","s","s","w","d">>
N_group == <<"/","e","t","c","/","g","r","o","u","p">>
N_shadow_bak == N_shadow \o <<".","b","a","k">>
N_sshdir == <<"/","e","t","c","/","s","s","h","/">>
N_home == <<"/","h","o","m","e">>

FileNames == {N_shadow, N_passwd, N_group, N_shadow_bak, N_sshdir, N_home}
FilePaths == {Take(n, AUDIT_PATH_LEN - 1) : n \in FileNames}

HistZero ==
    [ nlines     |-> 0,                          \* lines read from the stream
      file_hits  |-> [p \in FilePaths |-> 0],    \* see FileHits
      cache0     |-> <<>>,                       \* cache when the file parser started
      auth_users |-> {},       \* accounts named by the failed lines read
      auth_anon  |-> 0,        \* failed lines without a non-empty acct="..."
      auth_dropped |-> 0,      \* failed lines whose tag was new to a full table
      ops        |-> 0,        \* baseline-store calls made
      last       |-> "none",   \* the last baseline-store call
      opened     |-> "none",   \* the file the last load read: "sys", "usr", "none"
      sample     |-> ZeroSummary,  \* the summary passed to the last update
      updates    |-> 0,        \* update calls made
      loads      |-> 0,        \* load calls made
      exec_lines |-> <<>>,     \* the execve lines read in this probe
      others     |-> 0,        \* 1 once auth, privilege, file or denial input came
      populated  |-> 0 ]       \* 1 once a SYSCALL record filled a slot, in any probe

\* per path: the lines that passed the filter with this path, counted from
\* the line that recorded the path on
FileHits(h, s1, line) ==
    LET path == Take(line.name, AUDIT_PATH_LEN - 1)
    IN  IF line.name # NoName /\ PathPasses(path)
           /\ FindFile(s1.sensitive_files, path) # 0
        THEN [h.file_hits EXCEPT ![path] = @ + 1]
        ELSE h.file_hits

(***************************************************************************)
(* Inputs of the file parser.                                              *)
(***************************************************************************)
SyscallLine42 ==
    [msg |-> 42, pid |-> 999, ppid |-> 1000, comm |-> "vim", exe |-> "/usr/bin/vim"]

\* the cache after parse_syscall_context has read n SYSCALL records of
\* distinct events 1001 .. 1000+n (pid=500 ppid=1 comm="sshd", no exe):
\* each creates the next slot and fills it
CacheAfterFillers(n) ==
    [i \in 1..n |->
        [event_id |-> 1000 + i, pid |-> 500, ppid |-> 1, comm |-> "sshd",
         exe |-> "", used |-> TRUE]]

FileInitCaches ==
    { clear_event_ctx,
      SyscallStep(clear_event_ctx, SyscallLine42),
      CacheAfterFillers(MAX_AUDIT_EVENTS - 1),
      CacheAfterFillers(MAX_AUDIT_EVENTS) }

FileLines ==
    [msg : {NoMsg, 42, 43}, name : FileNames \cup {NoName}]

ChainExts == {<<>>, <<"bash">>}

(***************************************************************************)
(* Actions of the file parser.                                             *)
(***************************************************************************)
FileLineOf(lines, max) ==
    /\ pc = "file"
    /\ hist.nlines < max
    /\ \E line \in lines, ext \in ChainExts, susp \in BOOLEAN :
          LET r == FileStep(summary, event_ctx, line, ext, susp)
          IN  /\ summary' = r.s
              /\ event_ctx' = r.cache
              /\ hist' = [hist EXCEPT !.nlines = @ + 1,
                                      !.others = 1,
                                      !.file_hits = FileHits(hist, r.s, line)]
    /\ UNCHANGED <<pc, baseline, disk, home, log_ok, now, ret>>

FileLine == FileLineOf(FileLines, MaxFileLines)

\* fgets returns NULL: pclose, parse_file_events returns
FileEOFOnly ==
    /\ pc = "file"
    /\ pc' = "file_done"
    /\ UNCHANGED <<summary, event_ctx, baseline, disk, home, log_ok, now, ret, hist>>

\* a file that does not exist; w says whether fopen(path, "wb") can create it
Absent(w) ==
    [exists |-> FALSE, r |-> FALSE, w |-> w, own |-> FALSE,
     data |-> ZeroBaseline, len |-> 0]

NoDisk == [sys |-> Absent(FALSE), usr |-> Absent(TRUE)]

InitFile ==
    /\ pc = "file"
    /\ summary = [ZeroSummary EXCEPT !.enabled = TRUE]
    /\ event_ctx \in FileInitCaches
    /\ baseline = ZeroBaseline
    /\ disk = NoDisk
    /\ home = TRUE
    /\ log_ok = TRUE
    /\ now = 0
    /\ ret = "none"
    /\ hist = [HistZero EXCEPT !.cache0 = event_ctx]

NextFile == FileLine \/ FileEOFOnly

SpecFile == InitFile /\ [][NextFile]_vars

\* C5: after the file parser has processed any sequence of PATH lines, no two
\* entries of sensitive_files have the same path, every entry has count >= 1
\* and sensitive_file_count is at most MAX_AUDIT_FILES.
C5_FilesAreASet ==
    LET files == summary.sensitive_files
    IN  /\ \A i, j \in 1..Len(files) : files[i].path = files[j].path => i = j
        /\ \A i \in 1..Len(files) : files[i].count >= 1
        /\ Len(files) <= MAX_AUDIT_FILES

\* a repeated path was counted and the table is full
C5_Witness ==
    /\ pc = "file_done"
    /\ Len(summary.sensitive_files) = MAX_AUDIT_FILES
    /\ \E i \in 1..Len(summary.sensitive_files) :
          summary.sensitive_files[i].count >= 2

\* C6: the count of every recorded path equals the number of lines that
\* passed the filter with that path from its first recorded occurrence on,
\* also when sensitive_files is full.
C6_CountEqualsHits ==
    \A i \in 1..Len(summary.sensitive_files) :
        summary.sensitive_files[i].count
            = hist.file_hits[summary.sensitive_files[i].path]

\* C12: the file parser only reads the event context cache: after any
\* sequence of PATH lines the cache (its entry count and every slot) is what
\* it was when parse_file_events started, and it never holds more than
\* MAX_AUDIT_EVENTS entries.
C12_FileParserKeepsCache ==
    /\ Len(event_ctx) <= MAX_AUDIT_EVENTS
    /\ event_ctx = hist.cache0

(***************************************************************************)
(* Username hashing and the auth parser: hash_username, find_or_add_user,  *)
(* parse_auth_events.                                                      *)
(***************************************************************************)
NoAcct == <<"<absent>">>         \* the line has no acct="
U_alice == <<"a","l","i","c","e">>
U_bob == <<"b","o","b">>
U_carol == <<"c","a","r","o","l">>
U_mallory == <<"m","a","l","l","o","r","y">>
U_pad == [i \in 1..(USERNAME_BUF - 1) |-> "x"]
U_long1 == U_pad \o <<"1">>      \* two accounts that agree on the
U_long2 == U_pad \o <<"2">>      \* first USERNAME_BUF-1 characters

\* first 4 hex digits of sha256_string(salt ":" username); 16 bits, so
\* distinct names can share them: U_alice and U_mallory stand for such a pair
Sha4(username) ==
    IF username \in {U_alice, U_mallory} THEN "a1b2"
    ELSE IF username = U_bob THEN "0c3d"
    ELSE IF username = U_carol THEN "77e0"
    ELSE IF username = U_pad THEN "f00d"
    ELSE "9999"

\* hash_username: "user_" followed by the 4 digits
hash_username(username) == <<"user_", Sha4(username)>>

FindUser(users, hashed) ==
    LET hits == {i \in 1..Len(users) : users[i].hash = hashed}
    IN  IF hits = {} THEN 0 ELSE CHOOSE i \in hits : \A j \in hits : i <= j

\* a table that reuses its last entry when it is full
find_or_add_user_reuse_last(users, username) ==
    LET hashed == hash_username(username)
    IN  IF FindUser(users, hashed) # 0
        THEN [user |-> FindUser(users, hashed), users |-> users]
        ELSE IF Len(users) < MAX_AUDIT_USERS
        THEN [user |-> Len(users) + 1,
              users |-> Append(users, [hash |-> hashed, count |-> 0])]
        ELSE [user |-> Len(users), users |-> users]

\* find_or_add_user: index of the entry (0 is NULL) and the table
find_or_add_user(users, username) ==
    LET hashed == hash_username(username)
    IN  IF FindUser(users, hashed) # 0
        THEN [user |-> FindUser(users, hashed), users |-> users]
        ELSE IF Len(users) < MAX_AUDIT_USERS
        THEN [user |-> Len(users) + 1,
              users |-> Append(users, [hash |-> hashed, count |-> 0])]
        ELSE [user |-> 0, users |-> users]

\* the characters copied into char username[64]
ExtractUsername(acct) == Take(acct, USERNAME_BUF - 1)

\* one iteration of the loop of parse_auth_events
AuthStep(s, line) ==
    LET username == ExtractUsername(line.acct)
        r == find_or_add_user(s.failure_users, username)
    IN  IF line.failed
        THEN IF line.acct # NoAcct /\ Len(username) > 0 /\ r.user # 0
             THEN [s EXCEPT !.auth_failures = @ + 1,
                            !.failure_users =
                                [r.users EXCEPT ![r.user].count = @ + 1]]
             ELSE IF line.acct # NoAcct /\ Len(username) > 0
             THEN [s EXCEPT !.auth_failures = @ + 1, !.failure_users = r.users]
             ELSE [s EXCEPT !.auth_failures = @ + 1]
        ELSE IF line.success
        THEN [s EXCEPT !.auth_successes = @ + 1]
        ELSE s

\* after the loop: brute force is more than 5 failures
AuthFinish(s) == [s EXCEPT !.brute_force_detected = (s.auth_failures > 5)]

\* the history of the failed lines, from the line and the table before it
AuthHist(h, s0, line) ==
    LET username == ExtractUsername(line.acct)
        usable == line.acct # NoAcct /\ Len(username) > 0
        known == \E i \in 1..Len(s0.failure_users) :
                    s0.failure_users[i].hash = hash_username(username)
    IN  IF ~line.failed THEN h
        ELSE IF ~usable THEN [h EXCEPT !.auth_anon = @ + 1]
        ELSE IF ~known /\ Len(s0.failure_users) >= MAX_AUDIT_USERS
        THEN [h EXCEPT !.auth_users = @ \cup {line.acct}, !.auth_dropped = @ + 1]
        ELSE [h EXCEPT !.auth_users = @ \cup {line.acct}]

\* the post-filter grep keeps lines with res=success or res=failed
AuthLines ==
    { l \in [failed : BOOLEAN, success : BOOLEAN,
             acct : {NoAcct, <<>>, U_alice, U_bob, U_carol, U_mallory,
                     U_long1, U_long2}] : l.failed \/ l.success }

AuthLineOf(lines, max) ==
    /\ pc = "auth"
    /\ hist.nlines < max
    /\ \E line \in lines :
          /\ summary' = AuthStep(summary, line)
          /\ hist' = [AuthHist(hist, summary, line) EXCEPT !.nlines = @ + 1,
                                                          !.others = 1]
    /\ UNCHANGED <<pc, event_ctx, baseline, disk, home, log_ok, now, ret>>

AuthLine == AuthLineOf(AuthLines, MaxAuthLines)

AuthEOFOnly ==
    /\ pc = "auth"
    /\ pc' = "auth_done"
    /\ summary' = AuthFinish(summary)
    /\ UNCHANGED <<event_ctx, baseline, disk, home, log_ok, now, ret, hist>>

InitAuth ==
    /\ pc = "auth"
    /\ summary = [ZeroSummary EXCEPT !.enabled = TRUE]
    /\ event_ctx = clear_event_ctx
    /\ baseline = ZeroBaseline
    /\ disk = NoDisk
    /\ home = TRUE
    /\ log_ok = TRUE
    /\ now = 0
    /\ ret = "none"
    /\ hist = HistZero

NextAuth == AuthLine \/ AuthEOFOnly

SpecAuth == InitAuth /\ [][NextAuth]_vars

UserCountSum == SumSeq([i \in 1..Len(summary.failure_users) |->
                            summary.failure_users[i].count])

\* C7 as stated: the per-user counts sum to at most auth_failures, and to
\* exactly auth_failures whenever the number of distinct failing users does
\* not exceed MAX_AUDIT_USERS.
C7_Original ==
    /\ UserCountSum <= summary.auth_failures
    /\ Cardinality(hist.auth_users) <= MAX_AUDIT_USERS
          => UserCountSum = summary.auth_failures

\* C7 (amended): the per-user counts sum to at most auth_failures; what is
\* missing is exactly the failed lines without a non-empty acct="..." plus
\* the failed lines whose tag was not in the table when the table was full;
\* so the two are equal when every failed line names an account and the
\* distinct failing users do not exceed MAX_AUDIT_USERS.
C7_SumAccounting ==
    /\ UserCountSum <= summary.auth_failures
    /\ summary.auth_failures
          = UserCountSum + hist.auth_anon + hist.auth_dropped
    /\ (hist.auth_anon = 0 /\ Cardinality(hist.auth_users) <= MAX_AUDIT_USERS)
          => UserCountSum = summary.auth_failures

\* the table is full, a failure with a new tag was dropped, and a failure
\* of a user sharing a tag was counted
C7_Witness ==
    /\ pc = "auth_done"
    /\ Len(summary.failure_users) = MAX_AUDIT_USERS
    /\ hist.auth_dropped >= 1
    /\ Cardinality(hist.auth_users) > MAX_AUDIT_USERS + 1
    /\ UserCountSum < summary.auth_failures

(***************************************************************************)
(* Anomaly detection: calculate_deviation_pct, deviation_significance,     *)
(* add_anomaly, detect_anomalies.                                          *)
(***************************************************************************)
calculate_deviation_pct(current, baseline_avg) ==
    IF RLt(baseline_avg, Rat(1, 10))
    THEN IF RGt(current, F(0)) THEN F(100) ELSE F(0)
    ELSE RMul(RDiv(RSub(current, baseline_avg), baseline_avg), F(100))

deviation_significance(deviation_pct) ==
    IF RGt(deviation_pct, F(500)) THEN "CRITICAL"
    ELSE IF RGt(deviation_pct, F(200)) THEN "HIGH"
    ELSE IF RGt(deviation_pct, F(100)) THEN "MEDIUM"
    ELSE IF RGt(deviation_pct, F(50)) THEN "LOW"
    ELSE "NORMAL"

\* the description text is a rendering of the numbers and is left out
add_anomaly(s, type, severity, current, base, deviation, t) ==
    IF Len(s.anomalies) >= MAX_AUDIT_ANOMALIES THEN s
    ELSE [s EXCEPT !.anomalies =
             Append(@, [ type          |-> type,
                         severity      |-> severity,
                         current_value |-> current,
                         baseline_avg  |-> base,
                         deviation_pct |-> deviation,
                         timestamp     |-> t ])]

\* the body of detect_anomalies after the sample_count test
DetectBody(s, b, t) ==
    LET adev == calculate_deviation_pct(F(s.auth_failures), b.avg_auth_failures)
        s1 == [s EXCEPT !.auth_baseline_avg = b.avg_auth_failures,
                        !.auth_deviation_pct = adev]
        s2 == IF RGt(adev, F(100))
              THEN add_anomaly(s1, "auth_failure_spike", deviation_significance(adev),
                               F(s.auth_failures), b.avg_auth_failures, adev, t)
              ELSE s1
        sdev == calculate_deviation_pct(F(s.sudo_count), b.avg_sudo_count)
        s3 == [s2 EXCEPT !.sudo_baseline_avg = b.avg_sudo_count,
                         !.sudo_deviation_pct = sdev]
        s4 == IF RGt(sdev, F(200))
              THEN add_anomaly(s3, "sudo_spike", deviation_significance(sdev),
                               F(s.sudo_count), b.avg_sudo_count, sdev, t)
              ELSE s3
        s5 == IF s.tmp_executions > 0
              THEN add_anomaly(s4, "tmp_execution", "HIGH",
                               F(s.tmp_executions), F(0), F(100), t)
              ELSE s4
    IN  IF s.devshm_executions > 0
        THEN add_anomaly(s5, "devshm_execution", "CRITICAL",
                         F(s.devshm_executions), F(0), F(100), t)
        ELSE s5

\* a detector without the test of sample_count
detect_anomalies_any_baseline(s, b, t) == DetectBody(s, b, t)

detect_anomalies(s, b, t) ==
    IF b.sample_count < 5 THEN s ELSE DetectBody(s, b, t)

(***************************************************************************)
(* Baseline store: load_audit_baseline, save_audit_baseline,               *)
(* update_audit_baseline.                                                  *)
(***************************************************************************)
\* the fields of audit_baseline_t in the order of the record on disk
BaselineFields ==
    << "magic", "version", "created", "updated", "sample_count",
       "avg_auth_failures", "avg_sudo_count", "avg_sensitive_access",
       "avg_tmp_executions", "avg_shell_spawns" >>

NFields == Len(BaselineFields)

FieldIndex(f) == CHOOSE i \in 1..NFields : BaselineFields[i] = f

\* fread into *baseline from a file holding the first len fields
ReadInto(b, file) ==
    [f \in DOMAIN b |-> IF FieldIndex(f) <= file.len THEN file.data[f] ELSE b[f]]

\* the file load_audit_baseline opens: the system path, else the user path
OpenedForRead(d, h) ==
    IF d.sys.exists /\ d.sys.r THEN "sys"
    ELSE IF h /\ d.usr.exists /\ d.usr.r THEN "usr"
    ELSE "none"

load_audit_baseline(b, d, h) ==
    LET which == OpenedForRead(d, h)
        file == IF which = "sys" THEN d.sys ELSE d.usr
        got == ReadInto(b, file)
    IN  IF which = "none" THEN [ret |-> "false", baseline |-> b]
        ELSE IF file.len < NFields THEN [ret |-> "false", baseline |-> got]
        ELSE IF got.magic # AUDIT_BASELINE_MAGIC
        THEN [ret |-> "false", baseline |-> got]
        ELSE [ret |-> "true", baseline |-> got]

\* the file save_audit_baseline opens: the system path, else the user path
OpenedForWrite(d, h) ==
    IF d.sys.w THEN "sys"
    ELSE IF h /\ d.usr.w THEN "usr"
    ELSE "none"

\* fopen(path, "wb"), fwrite, fclose, chmod(path, 0600) on one file;
\* a file the call creates belongs to the caller, and chmod takes effect
\* only on a file of the caller
WriteFile(file, b, wrote) ==
    LET mine == file.own \/ ~file.exists
    IN  [ exists |-> TRUE,
          r      |-> IF wrote /\ mine THEN TRUE ELSE (file.r \/ ~file.exists),
          w      |-> TRUE,
          own    |-> mine,
          data   |-> IF wrote THEN b ELSE ZeroBaseline,
          len    |-> IF wrote THEN NFields ELSE 0 ]

\* wrote is the outcome of fwrite
save_audit_baseline(b, d, h, wrote) ==
    LET which == OpenedForWrite(d, h)
    IN  IF which = "none" THEN [ret |-> "false", disk |-> d]
        ELSE [ret |-> IF wrote THEN "true" ELSE "false",
              disk |-> [d EXCEPT ![which] = WriteFile(@, b, wrote)]]

\* an update that weights the sample 0.8 and the old average 0.2
EmaSwapped(sample, old) ==
    RAdd(RMul(F(sample), RSub(F(1), EMA_ALPHA)), RMul(old, EMA_ALPHA))

\* (sample * EMA_ALPHA) + (old * (1 - EMA_ALPHA))
Ema(sample, old) ==
    RAdd(RMul(F(sample), EMA_ALPHA), RMul(old, RSub(F(1), EMA_ALPHA)))

\* t1 and t2 are the values of the two calls of time(NULL)
update_audit_baseline(b, cur, t1, t2) ==
    LET b1 == IF b.sample_count = 0
              THEN [b EXCEPT
                      !.magic = AUDIT_BASELINE_MAGIC,
                      !.version = AUDIT_BASELINE_VERSION,
                      !.created = t1,
                      !.avg_auth_failures = F(cur.auth_failures),
                      !.avg_sudo_count = F(cur.sudo_count),
                      !.avg_sensitive_access = F(Len(cur.sensitive_files)),
                      !.avg_tmp_executions = F(cur.tmp_executions),
                      !.avg_shell_spawns = F(cur.shell_spawns)]
              ELSE [b EXCEPT
                      !.avg_auth_failures = Ema(cur.auth_failures, @),
                      !.avg_sudo_count = Ema(cur.sudo_count, @),
                      !.avg_sensitive_access = Ema(Len(cur.sensitive_files), @),
                      !.avg_tmp_executions = Ema(cur.tmp_executions, @),
                      !.avg_shell_spawns = Ema(cur.shell_spawns, @)]
    IN  [b1 EXCEPT !.sample_count = @ + 1, !.updated = t2]

(***************************************************************************)
(* The baseline store driven by a caller: any sequence of load, update and *)
(* save on one in-memory baseline, over the files found at start.          *)
(***************************************************************************)
ValidBaseline(n) ==
    [ZeroBaseline EXCEPT !.magic = AUDIT_BASELINE_MAGIC,
                         !.version = AUDIT_BASELINE_VERSION,
                         !.sample_count = n,
                         !.avg_auth_failures = F(2),
                         !.avg_sudo_count = Rat(1, 2)]

GarbageBaseline == [ValidBaseline(7) EXCEPT !.magic = "GARBAGE!"]

File(data, len, r, w, own) ==
    [exists |-> TRUE, r |-> r, w |-> w, own |-> own, data |-> data, len |-> len]

\* the system file: missing, a record the caller may only read, the
\* caller's own record, or a foreign file with another magic
SysFiles ==
    { Absent(FALSE), Absent(TRUE),
      File(ValidBaseline(10), NFields, TRUE, FALSE, FALSE),
      File(ValidBaseline(10), NFields, TRUE, TRUE, TRUE),
      File(GarbageBaseline, NFields, TRUE, FALSE, FALSE) }

\* the user file: missing, a record, another magic, or cut after sample_count
UsrFiles ==
    { Absent(TRUE), Absent(FALSE),
      File(ValidBaseline(10), NFields, TRUE, TRUE, TRUE),
      File(GarbageBaseline, NFields, TRUE, TRUE, TRUE),
      File(ValidBaseline(7), 5, TRUE, TRUE, TRUE) }

Sample(auth, sudo, nfiles, tmp, shells) ==
    [ZeroSummary EXCEPT
        !.enabled = TRUE,
        !.auth_failures = auth,
        !.sudo_count = sudo,
        !.sensitive_files =
            [i \in 1..nfiles |->
                [path |-> N_group, access_type |-> "write", count |-> i,
                 process |-> "", chain |-> <<>>, suspicious |-> FALSE]],
        !.tmp_executions = tmp,
        !.shell_spawns = shells]

Samples == {Sample(3, 1, 0, 0, 0), Sample(0, 0, 1, 1, 2)}

LoadCall ==
    /\ pc = "store"
    /\ hist.ops < MaxOps
    /\ LET r == load_audit_baseline(baseline, disk, home)
       IN  /\ baseline' = r.baseline
           /\ ret' = r.ret
    /\ hist' = [hist EXCEPT !.ops = @ + 1, !.last = "load", !.loads = @ + 1,
                            !.opened = OpenedForRead(disk, home)]
    /\ UNCHANGED <<pc, summary, event_ctx, disk, home, log_ok, now>>

SaveCall ==
    /\ pc = "store"
    /\ hist.ops < MaxOps
    /\ \E wrote \in BOOLEAN :
          LET r == save_audit_baseline(baseline, disk, home, wrote)
          IN  /\ disk' = r.disk
              /\ ret' = r.ret
    /\ hist' = [hist EXCEPT !.ops = @ + 1, !.last = "save"]
    /\ UNCHANGED <<pc, summary, event_ctx, baseline, home, log_ok, now>>

UpdateCall ==
    /\ pc = "store"
    /\ hist.ops < MaxOps
    /\ \E cur \in Samples, t1 \in now..MaxNow :
          \E t2 \in t1..MaxNow :
              /\ baseline' = update_audit_baseline(baseline, cur, t1, t2)
              /\ now' = t2
              /\ hist' = [hist EXCEPT !.ops = @ + 1, !.last = "update",
                                      !.updates = @ + 1, !.sample = cur]
    /\ UNCHANGED <<pc, summary, event_ctx, disk, home, log_ok, ret>>

InitBaseline ==
    /\ pc = "store"
    /\ summary = ZeroSummary
    /\ event_ctx = clear_event_ctx
    /\ baseline = ZeroBaseline
    /\ disk \in [sys : SysFiles, usr : UsrFiles]
    /\ home \in BOOLEAN
    /\ log_ok = TRUE
    /\ now = 0
    /\ ret = "none"
    /\ hist = HistZero

NextBaseline == LoadCall \/ SaveCall \/ UpdateCall

SpecBaseline == InitBaseline /\ [][NextBaseline]_vars

\* the five averages of a baseline, and the five counters of a sample
Averages(b) ==
    << b.avg_auth_failures, b.avg_sudo_count, b.avg_sensitive_access,
       b.avg_tmp_executions, b.avg_shell_spawns >>

Counters(s) ==
    << s.auth_failures, s.sudo_count, Len(s.sensitive_files),
       s.tmp_executions, s.shell_spawns >>

\* C8: an update on sample_count = 0 sets magic, version and created and
\* makes every average the sample's value; any other update makes every
\* average 0.2 * sample + 0.8 * old (stated as 5 * new = sample + 4 * old)
\* and keeps magic, version and created; sample_count grows by exactly 1,
\* so n updates of an empty baseline give sample_count = n.
C8_UpdateFoldsOneSample ==
    [][ hist'.last = "update" /\ hist'.updates = hist.updates + 1 =>
          /\ baseline'.sample_count = baseline.sample_count + 1
          /\ hist'.loads = 0 => baseline'.sample_count = hist'.updates
          /\ IF baseline.sample_count = 0
             THEN /\ baseline'.magic = AUDIT_BASELINE_MAGIC
                  /\ baseline'.version = 1
                  /\ baseline'.created \in now..now'
                  /\ \A i \in 1..5 :
                        Averages(baseline')[i] = F(Counters(hist'.sample)[i])
             ELSE /\ baseline'.magic = baseline.magic
                  /\ baseline'.version = baseline.version
                  /\ baseline'.created = baseline.created
                  /\ \A i \in 1..5 :
                        RMul(F(5), Averages(baseline')[i])
                          = RAdd(F(Counters(hist'.sample)[i]),
                                 RMul(F(4), Averages(baseline)[i])) ]_vars

\* an update was folded into a baseline that already held samples, and an
\* average took a value between the old average and the sample
C8_Witness ==
    /\ hist.last = "update"
    /\ hist.updates >= 2
    /\ baseline.sample_count >= 2
    /\ baseline.avg_auth_failures = Rat(12, 5)

\* C9: if save_audit_baseline(b) returns true, an immediately following
\* load_audit_baseline returns true and yields a record equal to b.
C9_RoundTrip ==
    [][ (hist.last = "save" /\ ret = "true" /\ hist'.last = "load")
          => (ret' = "true" /\ baseline' = baseline) ]_vars

\* C10: load_audit_baseline returns false for a file whose first 8 bytes
\* are not SNTLAUDT and leaves the caller's baseline as it was.
C10_BadMagicLeavesBaseline ==
    [][ ( /\ hist'.last = "load" /\ hist'.ops = hist.ops + 1
          /\ OpenedForRead(disk, home) # "none"
          /\ disk[OpenedForRead(disk, home)].len >= 1
          /\ disk[OpenedForRead(disk, home)].data.magic # AUDIT_BASELINE_MAGIC )
          => (ret' = "false" /\ baseline' = baseline) ]_vars

\* C11: when the first call on a zero-initialised baseline is a load that
\* fails (no file, a short file or another magic), an update that follows it
\* initializes the baseline: magic is SNTLAUDT, version is 1, sample_count is
\* 1 and every average equals the sample's counter.
C11_UpdateAfterFailedLoadInitializes ==
    [][ ( /\ hist.ops = 1 /\ hist.last = "load" /\ ret = "false"
          /\ hist'.last = "update" /\ hist'.ops = 2 )
          => ( /\ baseline'.magic = AUDIT_BASELINE_MAGIC
               /\ baseline'.version = AUDIT_BASELINE_VERSION
               /\ baseline'.sample_count = 1
               /\ \A i \in 1..5 :
                     Averages(baseline')[i] = F(Counters(hist'.sample)[i]) ) ]_vars

(***************************************************************************)
(* Exec parser, privilege parser, security framework check.                *)
(***************************************************************************)
\* a parser that counts a /dev/shm/ line as a /tmp/ line
ExecStepShmAsTmp(s, line) ==
    [s EXCEPT !.tmp_executions = IF line.tmp \/ line.shm THEN @ + 1 ELSE @]

\* one iteration of the first loop of parse_exec_events
ExecStep(s, line) ==
    [s EXCEPT !.tmp_executions = IF line.tmp THEN @ + 1 ELSE @,
              !.devshm_executions = IF line.shm THEN @ + 1 ELSE @]

\* the shell spawn count, when the grep -c printed one
ExecFinish(s, shells) ==
    IF shells = NoInt THEN s ELSE [s EXCEPT !.shell_spawns = shells]

\* parse_priv_events: the two counts printed by grep -c
PrivStep(s, sudo, su) ==
    LET s1 == IF sudo = NoInt THEN s ELSE [s EXCEPT !.sudo_count = sudo]
    IN  IF su = NoInt THEN s1 ELSE [s1 EXCEPT !.su_count = su]

\* check_security_framework: selinux is the content of
\* /sys/fs/selinux/enforce ("absent" when it cannot be opened)
SecFwStep(s, selinux, avc, aa) ==
    LET s1 == IF selinux = "absent" THEN s
              ELSE [s EXCEPT !.selinux_enforcing = (selinux = "1"),
                             !.selinux_avc_denials = IF avc = NoInt THEN @ ELSE avc]
    IN  IF aa = NoInt THEN s1 ELSE [s1 EXCEPT !.apparmor_denials = aa]

\* the grep keeps lines naming /tmp/ or /dev/shm/
ExecLines == {l \in [tmp : BOOLEAN, shm : BOOLEAN] : l.tmp \/ l.shm}

(***************************************************************************)
(* The probe orchestrator: probe_audit, one step per line read.            *)
(***************************************************************************)
ProbeSyscallLines ==
    { SyscallLine42,
      [msg |-> 43, pid |-> 7, ppid |-> NoInt, comm |-> NoField, exe |-> NoField],
      [msg |-> NoMsg, pid |-> 7, ppid |-> 1, comm |-> "cron", exe |-> NoField] }

ProbeAuthLines ==
    { [failed |-> TRUE, success |-> FALSE, acct |-> U_alice],
      [failed |-> TRUE, success |-> FALSE, acct |-> NoAcct],
      [failed |-> FALSE, success |-> TRUE, acct |-> U_alice] }

ProbeFileLines ==
    { [msg |-> 42, name |-> N_shadow],
      [msg |-> 43, name |-> N_passwd],
      [msg |-> NoMsg, name |-> N_sshdir] }

\* a baseline record on disk against which one failure or three sudo
\* commands are a spike
ProbeBaseline(n) ==
    [ValidBaseline(n) EXCEPT !.avg_auth_failures = Rat(1, 5)]

ProbeDisks ==
    { [sys |-> f, usr |-> Absent(TRUE)] :
        f \in { Absent(FALSE),
                File(ProbeBaseline(10), NFields, TRUE, TRUE, TRUE),
                File(ProbeBaseline(4), NFields, TRUE, TRUE, TRUE),
                File([ProbeBaseline(10) EXCEPT !.magic = "GARBAGE!"],
                     NFields, TRUE, TRUE, TRUE) } }

\* calloc, enabled, the access() test, clear_event_ctx
ProbeStart ==
    /\ pc \in {"idle", "returned"}
    /\ \E ok \in BOOLEAN :
          /\ log_ok' = ok
          /\ summary' = [ZeroSummary EXCEPT !.enabled = ok]
          /\ pc' = IF ok THEN "syscall" ELSE "returned"
          /\ event_ctx' = IF ok THEN clear_event_ctx ELSE event_ctx
    /\ baseline' = ZeroBaseline
    /\ ret' = "none"
    /\ hist' = [HistZero EXCEPT !.populated = hist.populated]
    /\ UNCHANGED <<disk, home, now>>

SyscallLine ==
    /\ pc = "syscall"
    /\ hist.nlines < MaxProbeLines
    /\ \E line \in ProbeSyscallLines :
          /\ event_ctx' = SyscallStep(event_ctx, line)
          /\ hist' = [hist EXCEPT
                        !.nlines = @ + 1,
                        !.populated = IF SyscallStep(event_ctx, line) # event_ctx
                                      THEN 1 ELSE @]
    /\ UNCHANGED <<pc, summary, baseline, disk, home, log_ok, now, ret>>

SyscallEOF ==
    /\ pc = "syscall"
    /\ pc' = "auth"
    /\ UNCHANGED <<summary, event_ctx, baseline, disk, home, log_ok, now, ret, hist>>

ProbeAuthLine == AuthLineOf(ProbeAuthLines, MaxProbeLines)

\* end of the auth stream, then parse_priv_events
ProbeAuthEOF ==
    /\ pc = "auth"
    /\ pc' = "file"
    /\ \E sudo \in {NoInt, 0, 3}, su \in {0, 1} :
          /\ summary' = PrivStep(AuthFinish(summary), sudo, su)
          /\ hist' = [hist EXCEPT
                        !.others = IF sudo > 0 \/ su > 0 THEN 1 ELSE @]
    /\ UNCHANGED <<event_ctx, baseline, disk, home, log_ok, now, ret>>

ProbeFileLine == FileLineOf(ProbeFileLines, MaxProbeLines)

ProbeFileEOF ==
    /\ pc = "file"
    /\ pc' = "exec"
    /\ UNCHANGED <<summary, event_ctx, baseline, disk, home, log_ok, now, ret, hist>>

ExecLine ==
    /\ pc = "exec"
    /\ hist.nlines < MaxProbeLines
    /\ \E line \in ExecLines :
          /\ summary' = ExecStep(summary, line)
          /\ hist' = [hist EXCEPT !.nlines = @ + 1,
                                  !.exec_lines = Append(@, line)]
    /\ UNCHANGED <<pc, event_ctx, baseline, disk, home, log_ok, now, ret>>

\* a probe that returns without the closing clear_event_ctx
ProbeFinishNoClear ==
    /\ pc = "exec"
    /\ pc' = "returned"
    /\ \E shells \in {NoInt, 2}, selinux \in {"absent", "0", "1"},
          avc \in {0, 1}, aa \in {0, 1} :
          LET s1 == SecFwStep(ExecFinish(summary, shells), selinux, avc, aa)
              r == load_audit_baseline(ZeroBaseline, disk, home)
              s2 == IF r.ret = "true" THEN detect_anomalies(s1, r.baseline, now)
                    ELSE s1
          IN  /\ summary' = calculate_risk_score(s2)
              /\ baseline' = r.baseline
              /\ ret' = r.ret
              /\ hist' = [hist EXCEPT
                            !.opened = OpenedForRead(disk, home),
                            !.others = IF s1.selinux_avc_denials > 0
                                          \/ s1.apparmor_denials > 0
                                       THEN 1 ELSE @]
    /\ UNCHANGED <<event_ctx, disk, home, log_ok, now>>

\* end of the execve stream and the shell count, check_security_framework,
\* clear_event_ctx, load_audit_baseline into the local baseline,
\* detect_anomalies when the load succeeded, calculate_risk_score, return
ProbeFinish ==
    /\ pc = "exec"
    /\ pc' = "returned"
    /\ \E shells \in {NoInt, 2}, selinux \in {"absent", "0", "1"},
          avc \in {0, 1}, aa \in {0, 1} :
          LET s1 == SecFwStep(ExecFinish(summary, shells), selinux, avc, aa)
              r == load_audit_baseline(ZeroBaseline, disk, home)
              s2 == IF r.ret = "true" THEN detect_anomalies(s1, r.baseline, now)
                    ELSE s1
          IN  /\ summary' = calculate_risk_score(s2)
              /\ baseline' = r.baseline
              /\ ret' = r.ret
              /\ hist' = [hist EXCEPT
                            !.opened = OpenedForRead(disk, home),
                            !.others = IF s1.selinux_avc_denials > 0
                                          \/ s1.apparmor_denials > 0
                                       THEN 1 ELSE @]
    /\ event_ctx' = clear_event_ctx
    /\ UNCHANGED <<disk, home, log_ok, now>>

Init ==
    /\ pc = "idle"
    /\ summary = ZeroSummary
    /\ event_ctx = clear_event_ctx
    /\ baseline = ZeroBaseline
    /\ disk \in ProbeDisks
    /\ home = TRUE
    /\ log_ok = TRUE
    /\ now = 0
    /\ ret = "none"
    /\ hist = HistZero

Next ==
    \/ ProbeStart
    \/ SyscallLine
    \/ SyscallEOF
    \/ ProbeAuthLine
    \/ ProbeAuthEOF
    \/ ProbeFileLine
    \/ ProbeFileEOF
    \/ ExecLine
    \/ ProbeFinish

Spec == Init /\ [][Next]_vars

\* slot i of the cache after a step holds process data and is new or changed
SlotFilledByStep(old, new, i) ==
    /\ new[i].pid # 0 \/ new[i].ppid # 0 \/ new[i].comm # "" \/ new[i].exe # ""
    /\ i > Len(old) \/ old[i] # new[i]

\* C13: the event context cache is scoped to one probe. Over any sequence
\* of probes the cache is empty whenever probe_audit has returned, also on
\* the early return for an unreadable log; the SYSCALL parser starts on a
\* cleared cache; a slot receives process data only while the SYSCALL parser
\* runs; and the parsers run in the order SYSCALL, auth/privilege, file, so
\* the SYSCALL parser has ended before the file parser reads its first line.
C13_CacheScopedToProbe ==
    [][ /\ pc' = "returned" => Len(event_ctx') = 0
        /\ (pc # "syscall" /\ pc' = "syscall") => event_ctx' = <<>>
        /\ (\E i \in 1..Len(event_ctx') :
                SlotFilledByStep(event_ctx, event_ctx', i))
              => (pc = "syscall" /\ pc' = "syscall")
        /\ pc = "syscall" => pc' \in {"syscall", "auth"}
        /\ pc' = "auth" => pc \in {"syscall", "auth"}
        /\ pc' = "file" => pc \in {"auth", "file"} ]_vars

\* a probe returned early on an unreadable log after an earlier probe had
\* filled the cache from SYSCALL records
C13_Witness ==
    /\ pc = "returned"
    /\ ~log_ok
    /\ ~summary.enabled
    /\ hist.populated = 1
    /\ hist.nlines = 0

RiskLevels == {"low", "medium", "high", "critical"}

\* C2: on every path every summary probe_audit returns has a risk_level
\* among low, medium, high, critical, and it is the class of risk_score:
\* critical from 31, high from 16, medium from 6, else low.
C2_LevelClassifiesScore ==
    pc = "returned" =>
        /\ summary.risk_level \in RiskLevels
        /\ summary.risk_level = "critical" <=> summary.risk_score >= 31
        /\ summary.risk_level = "high" <=>
              (summary.risk_score >= 16 /\ summary.risk_score < 31)
        /\ summary.risk_level = "medium" <=>
              (summary.risk_score >= 6 /\ summary.risk_score < 16)
        /\ summary.risk_level = "low" <=> summary.risk_score < 6

\* the number of suspicious entries of sensitive_files
SuspiciousFiles(s) ==
    Cardinality({i \in 1..Len(s.sensitive_files) : s.sensitive_files[i].suspicious})

\* the score without the deviation multiplier and the sudo bonus
PlainScore(s) ==
    s.auth_failures + (IF s.brute_force_detected THEN 10 ELSE 0)
    + 2 * s.su_count + 3 * (s.permission_changes + s.ownership_changes)
    + 2 * Len(s.sensitive_files) + 5 * SuspiciousFiles(s)
    + 4 * s.tmp_executions + 6 * s.devshm_executions
    + 10 * s.suspicious_exec_count
    + s.selinux_avc_denials + s.apparmor_denials

\* C3: when no baseline was loaded or the loaded one has sample_count < 5,
\* the returned summary has no anomaly, its four baseline comparison fields
\* are zero, and the score has neither multiplier nor sudo bonus.
C3_NoDetectionBelowFiveSamples ==
    (pc = "returned" /\ (ret # "true" \/ baseline.sample_count < 5)) =>
        /\ summary.anomalies = <<>>
        /\ summary.auth_baseline_avg = F(0)
        /\ summary.auth_deviation_pct = F(0)
        /\ summary.sudo_baseline_avg = F(0)
        /\ summary.sudo_deviation_pct = F(0)
        /\ log_ok => summary.risk_score = PlainScore(summary)

\* a baseline with fewer than 5 samples was loaded while the counters were
\* such that a baseline with 5 samples would have raised anomalies
C3_Witness ==
    /\ pc = "returned"
    /\ ret = "true"
    /\ baseline.sample_count = 4
    /\ summary.auth_failures >= 1
    /\ summary.sudo_count >= 3
    /\ summary.devshm_executions >= 1
    /\ summary.risk_score = PlainScore(summary)

\* scenario S3: the streams delivered one execve line naming /dev/shm/ (and
\* not /tmp/) and nothing else
OnlyOneShmLine ==
    /\ pc = "returned"
    /\ log_ok
    /\ Len(hist.exec_lines) = 1
    /\ hist.exec_lines[1].shm
    /\ ~hist.exec_lines[1].tmp
    /\ hist.others = 0

EmptyBaseline == ret # "true" \/ baseline.sample_count < 5

\* C4 as stated: S3 with an empty baseline gives devshm_executions = 1,
\* exactly one anomaly (devshm_execution, CRITICAL, deviation_pct = 100),
\* risk_score = 6 and risk_level = "medium".
C4_Original ==
    (OnlyOneShmLine /\ EmptyBaseline) =>
        /\ summary.devshm_executions = 1
        /\ Len(summary.anomalies) = 1
        /\ summary.anomalies[1].type = "devshm_execution"
        /\ summary.anomalies[1].severity = "CRITICAL"
        /\ summary.anomalies[1].deviation_pct = F(100)
        /\ summary.risk_score = 6
        /\ summary.risk_level = "medium"

\* C4 (amended): S3 (the line not also naming /tmp/) gives
\* devshm_executions = 1, risk_score = 6 and risk_level = "medium"; with an
\* empty baseline (none loaded, or sample_count < 5) there is no anomaly;
\* the one devshm_execution anomaly (CRITICAL, deviation_pct = 100) is
\* there exactly when a baseline with sample_count >= 5 was loaded.
C4_ShmScenario ==
    OnlyOneShmLine =>
        /\ summary.devshm_executions = 1
        /\ summary.risk_score = 6
        /\ summary.risk_level = "medium"
        /\ EmptyBaseline => summary.anomalies = <<>>
        /\ ~EmptyBaseline =>
              /\ Len(summary.anomalies) = 1
              /\ summary.anomalies[1].type = "devshm_execution"
              /\ summary.anomalies[1].severity = "CRITICAL"
              /\ summary.anomalies[1].deviation_pct = F(100)

\* S3 was run with no baseline file
C4_Witness ==
    /\ OnlyOneShmLine
    /\ ret = "false"
    /\ hist.opened = "none"
    /\ summary.devshm_executions = 1
    /\ summary.anomalies = <<>>

(***************************************************************************)
(* calculate_risk_score on its own, over a range of summaries.             *)
(***************************************************************************)
ScoreFiles ==
    { <<>>,
      Sample(0, 0, 1, 0, 0).sensitive_files,
      << [path |-> N_shadow, access_type |-> "write", count |-> 1,
          process |-> "", chain |-> <<>>, suspicious |-> TRUE] >>,
      << [path |-> N_group, access_type |-> "write", count |-> 2,
          process |-> "", chain |-> <<>>, suspicious |-> FALSE],
         [path |-> N_shadow, access_type |-> "write", count |-> 1,
          process |-> "vim", chain |-> <<"vim">>, suspicious |-> TRUE] >> }

ScoreDeviations ==
    {F(0), F(100), F(101), F(200), Rat(401, 2), F(500), F(501), F(900)}

InitScore ==
    /\ pc = "score"
    /\ \E af \in {0, 4, 20}, bf \in BOOLEAN, dev \in ScoreDeviations,
          sdev \in {F(200), F(201)},
          su, pch, och, tmp, shm, sx, avc, aa \in {0, 1},
          files \in ScoreFiles :
          summary = [ZeroSummary EXCEPT
                        !.enabled = TRUE,
                        !.auth_failures = af,
                        !.brute_force_detected = bf,
                        !.auth_deviation_pct = dev,
                        !.sudo_deviation_pct = sdev,
                        !.su_count = su,
                        !.permission_changes = pch,
                        !.ownership_changes = 2 * och,
                        !.sensitive_files = files,
                        !.tmp_executions = tmp,
                        !.devshm_executions = shm,
                        !.suspicious_exec_count = sx,
                        !.selinux_avc_denials = avc,
                        !.apparmor_denials = 3 * aa]
    /\ event_ctx = clear_event_ctx
    /\ baseline = ZeroBaseline
    /\ disk = NoDisk
    /\ home = TRUE
    /\ log_ok = TRUE
    /\ now = 0
    /\ ret = "none"
    /\ hist = HistZero

ScoreCall ==
    /\ pc = "score"
    /\ pc' = "scored"
    /\ summary' = calculate_risk_score(summary)
    /\ hist' = [hist EXCEPT !.sample = summary]
    /\ UNCHANGED <<event_ctx, baseline, disk, home, log_ok, now, ret>>

NextScore == ScoreCall

SpecScore == InitScore /\ [][NextScore]_vars

\* the factor for a deviation: 5 above 500, 3 above 200, 2 above 100, else 1
Multiplier(dev) ==
    IF RLt(F(500), dev) THEN 5
    ELSE IF RLt(F(200), dev) THEN 3
    ELSE IF RLt(F(100), dev) THEN 2
    ELSE 1

\* C1: risk_score is (auth_failures + 10 if brute force) times the factor of
\* auth_deviation_pct, plus 5 if sudo_deviation_pct > 200, plus 2*su_count,
\* 3*(permission_changes + ownership_changes), 2 per sensitive file and 5
\* more per suspicious one, 4*tmp + 6*devshm + 10*suspicious_exec_count, and
\* the SELinux and AppArmor denials; 20 failures (hence brute force) at a
\* deviation of 900 and nothing else score 150.
C1_RiskScoreFormula ==
    pc = "scored" =>
        LET s == hist.sample
        IN  /\ summary.risk_score =
                  Multiplier(s.auth_deviation_pct)
                     * (s.auth_failures + (IF s.brute_force_detected THEN 10 ELSE 0))
                  + (IF RLt(F(200), s.sudo_deviation_pct) THEN 5 ELSE 0)
                  + 2 * s.su_count
                  + 3 * (s.permission_changes + s.ownership_changes)
                  + 2 * Len(s.sensitive_files) + 5 * SuspiciousFiles(s)
                  + 4 * s.tmp_executions + 6 * s.devshm_executions
                  + 10 * s.suspicious_exec_count
                  + s.selinux_avc_denials + s.apparmor_denials
            /\ (s.auth_failures = 20 /\ s.brute_force_detected
                /\ PlainScore(s) = 30
                /\ s.auth_deviation_pct = F(900)
                /\ ~RLt(F(200), s.sudo_deviation_pct))
                  => summary.risk_score = 150

\* the scorer ran on 20 failures with brute force at a deviation of 900 and
\* nothing else, and on a summary where every term is present
C1_Witness ==
    /\ pc = "scored"
    /\ hist.sample.auth_failures = 20
    /\ hist.sample.brute_force_detected
    /\ hist.sample.auth_deviation_pct = F(900)
    /\ PlainScore(hist.sample) = 30
    /\ hist.sample.sudo_deviation_pct = F(200)
    /\ summary.risk_score = 150
    /\ summary.risk_level = "critical"

====
